---- MODULE Spec2Model ----
(***************************************************************************)
(* Model of downloader_gui.py: the DownloaderEngine retry/orchestration    *)
(* loop running on a worker thread, the Tk main thread that starts and     *)
(* stops it, and the root.after() hand-off of log lines between the two.   *)
(*                                                                         *)
(* Text is modelled character by character: a Python str is a tuple of     *)
(* one-character strings.  The two non-ASCII markers of the source are     *)
(* written as the single characters "CHECKMARK" (U+2713) and "CROSSMARK"   *)
(* (U+2717).                                                               *)
(***************************************************************************)
EXTENDS Integers, Sequences, FiniteSets, TLC

\* ------------------------------------------------------------------ bounds
\* longest address list typed into the text area
MaxUrls == 2
\* largest value of the retries spinbox that is explored (the widget allows 0..5)
MaxRetries == 2
\* callbacks scheduled with root.after(0, ...) and not yet run by the main loop
MaxPending == 1
OrderPending == 2
MaxEdits == 2
MaxLines == 4

\* ------------------------------------------------------- program constants
DefaultDelay == 2
BannerWidth == 50
RuleWidth == 40

\* ------------------------------------------------------------ Python text
Whitespace == {" ", "\t", "\n", "\r"}

RECURSIVE LStrip(_)
LStrip(s) == IF s # <<>> /\ Head(s) \in Whitespace THEN LStrip(Tail(s)) ELSE s

RECURSIVE RStrip(_)
RStrip(s) ==
    IF s # <<>> /\ s[Len(s)] \in Whitespace THEN RStrip(SubSeq(s, 1, Len(s) - 1)) ELSE s

\* str.strip()
Strip(s) == RStrip(LStrip(s))

RECURSIVE SplitFrom(_, _, _)
SplitFrom(s, sep, cur) ==
    IF s = <<>> THEN <<cur>>
    ELSE IF Head(s) = sep THEN <<cur>> \o SplitFrom(Tail(s), sep, <<>>)
    ELSE SplitFrom(Tail(s), sep, Append(cur, Head(s)))

\* str.split(sep) for a one-character separator
Split(s, sep) == SplitFrom(s, sep, <<>>)

\* needle in haystack
Contains(haystack, needle) ==
    \E i \in 1..(Len(haystack) - Len(needle) + 1) :
        SubSeq(haystack, i, i + Len(needle) - 1) = needle

\* str * n
Rep(c, n) == [i \in 1..n |-> c]

Digit(d) == <<"0", "1", "2", "3", "4", "5", "6", "7", "8", "9">>[d + 1]

\* f"{n}" for an int n >= 0
RECURSIVE Str(_)
Str(n) == IF n < 10 THEN <<Digit(n)>> ELSE Str(n \div 10) \o <<Digit(n % 10)>>

LowerChar(c) ==
    CASE c = "A" -> "a"
      [] c = "B" -> "b"
      [] c = "C" -> "c"
      [] c = "D" -> "d"
      [] c = "E" -> "e"
      [] c = "F" -> "f"
      [] c = "G" -> "g"
      [] c = "H" -> "h"
      [] c = "I" -> "i"
      [] c = "J" -> "j"
      [] c = "K" -> "k"
      [] c = "L" -> "l"
      [] c = "M" -> "m"
      [] c = "N" -> "n"
      [] c = "O" -> "o"
      [] c = "P" -> "p"
      [] c = "Q" -> "q"
      [] c = "R" -> "r"
      [] c = "S" -> "s"
      [] c = "T" -> "t"
      [] c = "U" -> "u"
      [] c = "V" -> "v"
      [] c = "W" -> "w"
      [] c = "X" -> "x"
      [] c = "Y" -> "y"
      [] c = "Z" -> "z"
      [] OTHER -> c

\* str.lower()
Lower(s) == [i \in 1..Len(s) |-> LowerChar(s[i])]

\* [f(x) for x in s]
Map(s, f(_)) == [i \in 1..Len(s) |-> f(s[i])]

\* --------------------------------------------------------- log line texts
\* line 129
Msg_banner ==
    Rep("=", BannerWidth)

\* line 130
Msg_starting ==
    <<"S", "t", "a", "r", "t", "i", "n", "g", " ", "d", "o", "w", "n", "l", "o", "a", "d", "s", ".", ".", ".">>

\* line 131
Msg_count(n) ==
    <<"U", "R", "L", "s", " ", "t", "o", " ", "p", "r", "o", "c", "e", "s", "s", ":", " ">>
    \o Str(n)

\* line 132
Msg_folder(download_path) ==
    <<"D", "o", "w", "n", "l", "o", "a", "d", " ", "f", "o", "l", "d", "e", "r", ":", " ">>
    \o download_path

\* line 133
Msg_selector(selector) ==
    <<"B", "u", "t", "t", "o", "n", " ", "s", "e", "l", "e", "c", "t", "o", "r", ":", " ">>
    \o selector

\* line 134
Msg_browser(browser_type, custom_browser_path) ==
    <<"B", "r", "o", "w", "s", "e", "r", ":", " ">>
    \o browser_type
    \o (IF custom_browser_path # <<>> THEN <<" ", "(">> \o custom_browser_path \o <<")">> ELSE <<>>)

\* line 139
Msg_launching ==
    <<"L", "a", "u", "n", "c", "h", "i", "n", "g", " ", "b", "r", "o", "w", "s", "e", "r", ".", ".", ".">>

\* line 150
Msg_custom(custom_browser_path) ==
    <<"U", "s", "i", "n", "g", " ", "c", "u", "s", "t", "o", "m", " ", "b", "r", "o", "w", "s", "e", "r", ":", " ">>
    \o custom_browser_path

\* line 166
Msg_stopped ==
    <<"D", "o", "w", "n", "l", "o", "a", "d", " ", "s", "t", "o", "p", "p", "e", "d", " ", "b", "y", " ", "u", "s", "e", "r">>

\* line 169
Msg_rule ==
    Rep("-", RuleWidth)

\* line 170
Msg_processing(index, n) ==
    <<"P", "r", "o", "c", "e", "s", "s", "i", "n", "g", " ", "U", "R", "L", " ">>
    \o Str(index)
    \o <<"/">>
    \o Str(n)

\* line 187
Msg_retrying(delay) ==
    <<"R", "e", "t", "r", "y", "i", "n", "g", " ", "i", "n", " ">>
    \o Str(delay)
    \o <<" ", "s", "e", "c", "o", "n", "d", "s", ".", ".", ".">>

\* line 198
Msg_waiting(delay) ==
    <<"W", "a", "i", "t", "i", "n", "g", " ">>
    \o Str(delay)
    \o <<" ", "s", "e", "c", "o", "n", "d", "s", ".", ".", ".">>

\* line 201
Msg_closing ==
    <<"C", "l", "o", "s", "i", "n", "g", " ", "b", "r", "o", "w", "s", "e", "r", ".", ".", ".">>

\* line 206
Msg_browsererr(e) ==
    <<"B", "r", "o", "w", "s", "e", "r", " ", "e", "r", "r", "o", "r", ":", " ">>
    \o e

\* line 210
Msg_summary ==
    <<"D", "O", "W", "N", "L", "O", "A", "D", " ", "S", "U", "M", "M", "A", "R", "Y">>

\* line 212
Msg_total(n, successful, failed) ==
    <<"T", "o", "t", "a", "l", ":", " ">>
    \o Str(n)
    \o <<" ", "|", " ", "S", "u", "c", "c", "e", "s", "s", ":", " ">>
    \o Str(successful)
    \o <<" ", "|", " ", "F", "a", "i", "l", "e", "d", ":", " ">>
    \o Str(failed)

\* line 215
Msg_failedhdr ==
    <<"F", "a", "i", "l", "e", "d", " ", "U", "R", "L", "s", ":">>

\* line 217
Msg_failedurl(url) ==
    <<" ", " ", "-", " ">>
    \o url

\* line 220
Msg_done ==
    <<"D", "o", "n", "e", "!">>

\* line 52
Msg_opening(attempt, max_retries, url) ==
    <<"[", "A", "t", "t", "e", "m", "p", "t", " ">>
    \o Str(attempt)
    \o <<"/">>
    \o Str(max_retries + 1)
    \o <<"]", " ", "O", "p", "e", "n", "i", "n", "g", ":", " ">>
    \o url

\* line 56
Msg_loaded ==
    <<"P", "a", "g", "e", " ", "l", "o", "a", "d", "e", "d", " ", "s", "u", "c", "c", "e", "s", "s", "f", "u", "l", "l", "y">>

\* line 65
Msg_notfound(selector) ==
    <<"D", "o", "w", "n", "l", "o", "a", "d", " ", "b", "u", "t", "t", "o", "n", " ", "n", "o", "t", " ", "f", "o", "u", "n", "d", ":", " ">>
    \o selector

\* line 68
Msg_found ==
    <<"F", "o", "u", "n", "d", " ", "d", "o", "w", "n", "l", "o", "a", "d", " ", "b", "u", "t", "t", "o", "n", ",", " ", "i", "n", "i", "t", "i", "a", "t", "i", "n", "g", " ", "d", "o", "w", "n", "l", "o", "a", "d", ".", ".", ".">>

\* line 76
Msg_downloading(filename) ==
    <<"D", "o", "w", "n", "l", "o", "a", "d", "i", "n", "g", ":", " ">>
    \o filename

\* line 84
Msg_complete(filename, file_size) ==
    <<"CHECKMARK", " ", "C", "o", "m", "p", "l", "e", "t", "e", ":", " ">>
    \o filename
    \o <<" ", "(">>
    \o Str(file_size)
    \o <<" ", "b", "y", "t", "e", "s", ")">>

\* line 87
Msg_notsaved(filename) ==
    <<"CROSSMARK", " ", "F", "i", "l", "e", " ", "n", "o", "t", " ", "s", "a", "v", "e", "d", ":", " ">>
    \o filename

\* line 91
Msg_timeout(e) ==
    <<"CROSSMARK", " ", "T", "i", "m", "e", "o", "u", "t", ":", " ">>
    \o e

\* line 94
Msg_error(e) ==
    <<"CROSSMARK", " ", "E", "r", "r", "o", "r", ":", " ">>
    \o e

\* line 605
Msg_threaderr(e) ==
    <<"E", "r", "r", "o", "r", ":", " ">>
    \o e

\* ------------------------------------------------------- Progress reporter
LevelText(level) ==
    CASE level = "INFO" -> <<"I", "N", "F", "O">>
      [] level = "SUCCESS" -> <<"S", "U", "C", "C", "E", "S", "S">>
      [] level = "WARNING" -> <<"W", "A", "R", "N", "I", "N", "G">>
      [] level = "ERROR" -> <<"E", "R", "R", "O", "R">>

\* datetime.now().strftime("%H:%M:%S"): digits and colons, whatever the time
Timestamps == {<<"1", "2", ":", "0", "0", ":", "0", "0">>}

\* DownloaderEngine.log: the text handed to gui_callback
log(timestamp, message, level) ==
    <<"[">> \o timestamp \o <<"]", " ">> \o LevelText(level) \o <<":", " ">> \o message

\* the tag log_message's update() gives a line
LogTag(message) ==
    IF Contains(message, <<"S", "U", "C", "C", "E", "S", "S">>)
       \/ Contains(message, <<"CHECKMARK">>)
    THEN "SUCCESS"
    ELSE IF Contains(message, <<"E", "R", "R", "O", "R">>)
            \/ Contains(message, <<"CROSSMARK">>)
    THEN "ERROR"
    ELSE IF Contains(message, <<"W", "A", "R", "N", "I", "N", "G">>)
    THEN "WARNING"
    ELSE "INFO"

\* ------------------------------------------------------------- job source
NotBlank(line) == Strip(line) # <<>>
NotComment(line) == Strip(line) = <<>> \/ Head(Strip(line)) # "#"
\* the two tests made on the line as it stands in the buffer
KeepLine_Untrimmed(line) == line # <<>> /\ Head(line) # "#"

KeepLine(line) == NotBlank(line) /\ NotComment(line)

\* DownloaderGUI.get_urls on the text area's content; Tk's get(1.0, END)
\* returns the content followed by a newline
get_urls(content) ==
    Map(SelectSeq(Split(Strip(content \o <<"\n">>), "\n"), KeepLine), Strip)

\* ------------------------------------------------------- explored inputs
Addresses == {<<"a">>, <<"b">>}
\* selection expressions: blank, plain, and ones that hold a marker log_message looks for
Selectors == {<<>>, <<" ">>, <<"#", "d", "l">>}
MarkedSelectors == {<<"a", ".", "E", "R", "R", "O", "R">>, <<"CHECKMARK">>}
Folders == {<<>>, <<" ">>, <<"d", "l">>}
\* the values of the browser type combobox
BrowserTypes ==
    {<<"C", "h", "r", "o", "m", "i", "u", "m">>, <<"F", "i", "r", "e", "f", "o", "x">>,
     <<"W", "e", "b", "K", "i", "t">>, <<"C", "u", "s", "t", "o", "m">>}
DefaultBrowserType == <<"C", "h", "r", "o", "m", "i", "u", "m">>
BrowserPaths == {<<>>, <<"Z", "e", "n">>}
Filenames == {<<"f", ".", "p", "d", "f">>}
ErrorTexts == {<<"b", "o", "o", "m">>}
FileSizes == {7}

RECURSIVE JoinLines(_)
JoinLines(lines) ==
    IF lines = <<>> THEN <<>>
    ELSE IF Len(lines) = 1 THEN lines[1]
    ELSE lines[1] \o <<"\n">> \o JoinLines(Tail(lines))

\* The code never compares or parses an address, so the lists are taken up to
\* renaming of the addresses: the first one is always "a".
AddressLists ==
    {ls \in UNION {[1..n -> Addresses] : n \in 0..MaxUrls} : ls = <<>> \/ ls[1] = <<"a">>}
\* ... and a buffer that holds a comment line only
Texts == {JoinLines(ls) : ls \in AddressLists} \cup {<<"#", "a">>}

\* buffers of at most MaxLines lines: blank ones, comments, addresses with
\* blanks around them or a "#" inside, the same address twice
TextBuffers ==
    {JoinLines(ls) :
        ls \in UNION {[1..n -> {<<>>, <<"\t">>, <<" ", "a", "\t">>, <<"#", "a">>,
                                <<" ", "#", "a">>, <<"b">>, <<"a", "#">>}] :
                         n \in 0..MaxLines}}

\* f"{n} URLs"
CountLabel(n) == Str(n) \o <<" ", "U", "R", "L", "s">>

\* ------------------------------------------------------------------ state
VARIABLES
    url_text,             \* content of the address text area
    url_count_var,        \* the label next to it
    selector_var,         \* the settings controls read by get_settings
    folder_var,
    retries_var,
    delay_var,
    browser_type_var,
    browser_path_var,
    playwright_installed, \* whether "import playwright" succeeds
    setup,                \* what a specification fixes about the environment
    start_btn,            \* "normal" or "disabled"
    stop_btn,
    progress_var,         \* the status line
    dialog,               \* the last message box shown, "none" after a start
    root,                 \* the window: open, or how on_closing destroyed it
    after_queue,          \* callbacks scheduled with root.after(0, ...), oldest first
    emitted,              \* number of the last log line handed over, modulo setup.modulus
    log_text,             \* the line update() inserted last, with its tag
    is_running,           \* DownloaderEngine.is_running
    should_stop,          \* DownloaderEngine.should_stop
    dir_exists,           \* whether the destination directory exists on disk
    w,                    \* the worker thread: position and locals of run()
    h                     \* history of the current run, read by the properties only

\* the controls, and the rest of what no step of a run changes
gui == <<url_text, url_count_var, selector_var, folder_var, retries_var, delay_var,
         browser_type_var, browser_path_var, playwright_installed, setup>>
buttons == <<start_btn, stop_btn, progress_var>>
vars == <<url_text, url_count_var, selector_var, folder_var, retries_var, delay_var,
          browser_type_var, browser_path_var, playwright_installed, setup,
          start_btn, stop_btn, progress_var, dialog, root, after_queue, emitted,
          log_text,
          is_running, should_stop, dir_exists, w, h>>

NoSettings ==
    [download_folder |-> <<>>, selector |-> <<>>, max_retries |-> 0,
     delay |-> 0, browser_type |-> <<>>, custom_browser_path |-> <<>>]

\* no worker thread exists
NoThread ==
    [pc |-> "none", urls |-> <<>>, settings |-> NoSettings, index |-> 0,
     attempt |-> 0, success |-> FALSE, successful |-> 0, failed |-> 0,
     failed_urls |-> <<>>, filename |-> <<>>, e |-> <<>>, k |-> 0]

\* per-item part of the history, reset when the loop moves to the next address
NoItem ==
    [attempts |-> 0,      \* calls of download_file on the current address
     retryWaits |-> 0,    \* "Retrying in ..." notices logged for it
     onlyZero |-> TRUE,   \* every attempt on it so far got locator.count() == 0
     notFound |-> 0]      \* "not found" events logged for it while onlyZero holds

\* an attempt on the current address did not end in locator.count() == 0
Matched(item) == [item EXCEPT !.onlyZero = FALSE, !.notFound = 0]

NoHistory ==
    [item |-> NoItem,
     total |-> 0,         \* calls of download_file in this run
     attempted |-> 0,     \* addresses with at least one call of download_file
     paced |-> 0,         \* sleeps of line 199 since an address was last counted
     job |-> [urls |-> <<>>, settings |-> NoSettings],  \* what the thread was given
     before |-> "none",   \* under a script: how the run before this one ended
     created |-> FALSE,   \* line 122 created the directory and no page was opened yet
     stopReq |-> FALSE,   \* stop() was called since the worker was launched
     earlyStop |-> FALSE, \* ... and before the first call of download_file
     browser |-> "none",  \* the engine whose browser, context and page were created
     exc |-> "none",      \* where the last exception caught outside download_file arose
     fatal |-> FALSE]     \* the "Browser error" entry was logged at level ERROR

\* the log view before any line is inserted
NoLine == [message |-> <<>>, tag |-> "none", level |-> "none", kind |-> "none", seq |-> 0]

\* What a specification fixes: how many callbacks may be pending, the modulus
\* of the emission numbers (1 keeps none), and the browser layer.
Plain ==
    [capacity |-> MaxPending, modulus |-> 1,
     script |-> [scripted |-> FALSE, launch |-> TRUE, fails |-> <<>>]]

\* A scripted browser layer: whether the launch succeeds and, for each address,
\* the failures of the attempts that come before the first one that succeeds.
FailureKinds == <<"zero", "timeout", "error", "notsaved">>
FailureRuns ==
    {[k \in 1..n |-> FailureKinds[((k - 1 + first) % Len(FailureKinds)) + 1]] :
        n \in 0..(MaxRetries + 1), first \in {0, Len(FailureKinds) - 1}}
Scripts ==
    {[scripted |-> TRUE, launch |-> TRUE, fails |-> f] :
        f \in [Addresses -> FailureRuns]}
    \cup {[scripted |-> TRUE, launch |-> FALSE, fails |-> [x \in Addresses |-> <<>>]]}

\* the window before on_closing destroys it
Open == [state |-> "open", asked |-> FALSE, worker |-> "none", lifecycle |-> "none"]

\* DownloaderGUI.get_settings
get_settings ==
    [download_folder |-> folder_var, selector |-> selector_var,
     max_retries |-> retries_var, delay |-> delay_var,
     browser_type |-> browser_type_var,
     custom_browser_path |-> Strip(browser_path_var)]

\* DownloaderEngine.__init__ and DownloaderGUI.__init__ / load_settings
InitWith(texts, selectors, types, paths) ==
    /\ url_text \in texts
    /\ selector_var \in selectors
    /\ browser_type_var \in types
    /\ browser_path_var \in paths
    /\ folder_var \in Folders
    /\ retries_var \in 0..MaxRetries
    /\ delay_var = DefaultDelay
    /\ playwright_installed \in BOOLEAN
    /\ start_btn = "normal"
    /\ stop_btn = "disabled"
    /\ progress_var = "Ready"
    /\ dialog = "none"
    /\ root = Open
    /\ after_queue = <<>>
    /\ emitted = 0
    /\ log_text = NoLine
    /\ is_running = FALSE
    /\ should_stop = FALSE
    /\ dir_exists \in BOOLEAN
    /\ w = NoThread
    /\ h = NoHistory

Init ==
    /\ InitWith(Texts, Selectors, {DefaultBrowserType}, {<<>>})
    /\ url_count_var = CountLabel(0)
    /\ setup = Plain

\* the same, with the selection expressions that hold a marker and every browser choice
InitMarked ==
    /\ InitWith(Texts, Selectors \cup MarkedSelectors, BrowserTypes, BrowserPaths)
    /\ url_count_var = CountLabel(0)
    /\ setup = Plain

\* one job of two addresses with one retry, the emission numbers kept and
\* room for OrderPending callbacks
InitOrder ==
    /\ InitWith(Texts, {<<"#", "d", "l">>}, {DefaultBrowserType}, {<<>>})
    /\ url_text = JoinLines(<<<<"a">>, <<"b">>>>)
    /\ Strip(folder_var) # <<>>
    /\ retries_var = 1
    /\ playwright_installed
    /\ url_count_var = CountLabel(0)
    /\ setup = [Plain EXCEPT !.capacity = OrderPending, !.modulus = OrderPending + 2]

\* one job of one address without retries, whose controls the user edits
InitEdit ==
    /\ InitWith(Texts, {<<"#", "d", "l">>}, {DefaultBrowserType}, {<<>>})
    /\ url_text = <<"a">>
    /\ Strip(folder_var) # <<>>
    /\ retries_var = 0
    /\ playwright_installed
    /\ url_count_var = CountLabel(0)
    /\ setup = Plain

\* one job of two addresses with MaxRetries retries against a scripted browser layer
InitScript ==
    /\ InitWith(Texts, {<<"#", "d", "l">>}, {DefaultBrowserType}, {<<>>})
    /\ url_text = JoinLines(<<<<"a">>, <<"b">>>>)
    /\ Strip(folder_var) # <<>>
    /\ retries_var = MaxRetries
    /\ playwright_installed
    /\ ~dir_exists
    /\ url_count_var = CountLabel(0)
    /\ \E s \in Scripts : setup = [Plain EXCEPT !.script = s]

\* any buffer, with the label as the constructor or an earlier, longer buffer left it
InitText ==
    /\ InitWith(TextBuffers, {<<"#", "d", "l">>}, {DefaultBrowserType}, {<<>>})
    /\ url_count_var \in {CountLabel(0), CountLabel(MaxLines + 1)}
    /\ Strip(folder_var) # <<>>
    /\ retries_var = 0
    /\ playwright_installed
    /\ dir_exists
    /\ setup = Plain

\* a valid job of two addresses with one retry, the directory there or not
InitLive ==
    /\ InitWith({JoinLines(<<<<"a">>, <<"b">>>>)}, {<<"#", "d", "l">>},
                {DefaultBrowserType}, {<<>>})
    /\ url_count_var = CountLabel(0)
    /\ folder_var = <<"d", "l">>
    /\ retries_var = 1
    /\ playwright_installed
    /\ setup = Plain

\* ------------------------------------------------------------ main thread
\* a button that runs its command in every state
Clickable_Always(state) == TRUE

\* a ttk.Button runs its command on a click unless its state is DISABLED
Clickable(state) == state = "normal"

\* DownloaderGUI.update_url_count (KeyRelease in the text area)
update_url_count ==
    /\ root.state = "open"
    /\ LET text == Strip(url_text \o <<"\n">>)
           urls == Map(SelectSeq(Split(text, "\n"), KeepLine), Strip)
       IN  url_count_var' = CountLabel(Len(urls))
    /\ UNCHANGED <<url_text, selector_var, folder_var, retries_var, delay_var,
                   browser_type_var, browser_path_var, playwright_installed, setup,
                   buttons, dialog, root, after_queue, emitted, log_text, is_running,
                   should_stop, dir_exists, w, h>>

\* the controls get_urls and get_settings read
Control ==
    [url_text |-> url_text, selector_var |-> selector_var, folder_var |-> folder_var,
     retries_var |-> retries_var, delay_var |-> delay_var,
     browser_type_var |-> browser_type_var]

\* what the user types or picks in each of them
Typed ==
    [url_text |-> JoinLines(<<<<"b">>, <<"a">>>>), selector_var |-> <<"a">>,
     folder_var |-> <<"d">>, retries_var |-> 1, delay_var |-> DefaultDelay + 1,
     browser_type_var |-> <<"F", "i", "r", "e", "f", "o", "x">>]

Edited == {c \in DOMAIN Typed : Control[c] = Typed[c]}

\* the Text, Entry, Spinbox and Combobox widgets stay enabled during a run: the
\* user changes one of them, at most MaxEdits of them in all
edit ==
    /\ root.state = "open"
    /\ Cardinality(Edited) < MaxEdits
    /\ \E c \in DOMAIN Typed \ Edited :
          /\ url_text' = IF c = "url_text" THEN Typed[c] ELSE url_text
          /\ selector_var' = IF c = "selector_var" THEN Typed[c] ELSE selector_var
          /\ folder_var' = IF c = "folder_var" THEN Typed[c] ELSE folder_var
          /\ retries_var' = IF c = "retries_var" THEN Typed[c] ELSE retries_var
          /\ delay_var' = IF c = "delay_var" THEN Typed[c] ELSE delay_var
          /\ browser_type_var' =
                IF c = "browser_type_var" THEN Typed[c] ELSE browser_type_var
    /\ UNCHANGED <<url_count_var, browser_path_var, playwright_installed, setup,
                   buttons, dialog, root, after_queue, emitted, log_text, is_running, should_stop,
                   dir_exists, w, h>>

\* how the run that h describes ended, recorded for the next one
Before ==
    IF ~setup.script.scripted \/ h.job.urls = <<>> THEN "none"
    ELSE IF h.stopReq THEN "stopped"
    ELSE "complete"

\* start_download without the test of the selector
start_download_NoSelectorTest ==
    /\ Clickable(start_btn)
    /\ LET urls == get_urls(url_text) IN
       IF urls = <<>> THEN
           /\ dialog' = "Please add at least one URL."
           /\ UNCHANGED <<buttons, w, h>>
       ELSE IF Strip(folder_var) = <<>> THEN
           /\ dialog' = "Please select a download folder."
           /\ UNCHANGED <<buttons, w, h>>
       ELSE IF ~playwright_installed THEN
           /\ dialog' = "Playwright is not installed."
           /\ UNCHANGED <<buttons, w, h>>
       ELSE
           /\ dialog' = "none"
           /\ start_btn' = "disabled"
           /\ stop_btn' = "normal"
           /\ progress_var' = "Downloading..."
           /\ w' = [NoThread EXCEPT !.pc = "L107", !.urls = urls,
                                    !.settings = get_settings]
           /\ h' = [NoHistory EXCEPT !.job = [urls |-> urls, settings |-> get_settings],
                                    !.before = Before]
    /\ UNCHANGED <<gui, root, after_queue, emitted, log_text, is_running, should_stop,
                   dir_exists>>

\* DownloaderGUI.start_download (the start button's command)
start_download ==
    /\ Clickable(start_btn)
    /\ LET urls == get_urls(url_text) IN
       IF urls = <<>> THEN
           /\ dialog' = "Please add at least one URL."
           /\ UNCHANGED <<buttons, w, h>>
       ELSE IF Strip(selector_var) = <<>> THEN
           /\ dialog' = "Please enter a button selector."
           /\ UNCHANGED <<buttons, w, h>>
       ELSE IF Strip(folder_var) = <<>> THEN
           /\ dialog' = "Please select a download folder."
           /\ UNCHANGED <<buttons, w, h>>
       ELSE IF ~playwright_installed THEN
           /\ dialog' = "Playwright is not installed."
           /\ UNCHANGED <<buttons, w, h>>
       ELSE
           /\ dialog' = "none"
           /\ start_btn' = "disabled"
           /\ stop_btn' = "normal"
           /\ progress_var' = "Downloading..."
           /\ w' = [NoThread EXCEPT !.pc = "L107", !.urls = urls,
                                    !.settings = get_settings]
           /\ h' = [NoHistory EXCEPT !.job = [urls |-> urls, settings |-> get_settings],
                                    !.before = Before]
    /\ UNCHANGED <<gui, root, after_queue, emitted, log_text, is_running, should_stop,
                   dir_exists>>

\* DownloaderEngine.stop
stop == should_stop' = TRUE

\* DownloaderGUI.stop_download (the stop button's command)
stop_download ==
    /\ Clickable(stop_btn)
    /\ stop
    /\ progress_var' = "Stopping..."
    /\ stop_btn' = "disabled"
    /\ h' = [h EXCEPT !.stopReq = TRUE, !.earlyStop = (w.pc # "none" /\ h.total = 0)]
    /\ UNCHANGED <<gui, root, start_btn, dialog, after_queue, emitted, log_text, is_running,
                   dir_exists, w>>

\* the update() closure of DownloaderGUI.log_message, run by the main loop
update ==
    /\ after_queue # <<>>
    /\ Head(after_queue).fn = "update"
    /\ log_text' = [message |-> Head(after_queue).message,
                    tag |-> LogTag(Head(after_queue).message),
                    level |-> Head(after_queue).level,
                    kind |-> Head(after_queue).kind,
                    seq |-> Head(after_queue).seq]
    /\ after_queue' = Tail(after_queue)
    /\ UNCHANGED <<emitted, gui, root, buttons, dialog, is_running, should_stop, dir_exists,
                   w, h>>

\* DownloaderGUI.download_complete, run by the main loop
download_complete ==
    /\ after_queue # <<>>
    /\ Head(after_queue).fn = "download_complete"
    /\ start_btn' = "normal"
    /\ stop_btn' = "disabled"
    /\ progress_var' = "Ready"
    /\ after_queue' = Tail(after_queue)
    /\ UNCHANGED <<emitted, gui, root, dialog, log_text, is_running, should_stop, dir_exists,
                   w, h>>

\* self.root.destroy(): the main loop returns and the process ends, and with it
\* the daemon worker thread and every pending callback.  What is left records
\* whether askokcancel was shown and where the worker stood.
Destroy(asked) ==
    /\ root' = [state |-> "destroyed", asked |-> asked, worker |-> w.pc,
                lifecycle |-> progress_var]
    /\ start_btn' = "disabled"
    /\ stop_btn' = "disabled"
    /\ progress_var' = "none"
    /\ dialog' = "none"
    /\ after_queue' = <<>>
    /\ emitted' = 0
    /\ log_text' = NoLine
    /\ is_running' = FALSE
    /\ w' = NoThread
    /\ h' = NoHistory

\* DownloaderGUI.on_closing (WM_DELETE_WINDOW); askokcancel answers ok or cancel
on_closing ==
    /\ root.state = "open"
    /\ IF is_running
       THEN \E ok \in BOOLEAN :
               IF ok
               THEN stop /\ Destroy(TRUE)
               ELSE UNCHANGED <<buttons, dialog, root, after_queue, emitted, log_text,
                                is_running, should_stop, w, h>>
       ELSE Destroy(FALSE) /\ UNCHANGED should_stop
    /\ UNCHANGED <<gui, dir_exists>>

\* ---------------------------------------------------------- worker thread
\* The worker's position w.pc is the source line it executes next: "L<n>" in
\* DownloaderEngine.run, "D<n>" in download_file, "T<n>" in run_download_thread.

mainSide == <<gui, buttons, dialog, root, log_text>>

\* the callback put before the pending ones
Schedule_Prepend(text, level, kind) ==
    /\ Len(after_queue) < setup.capacity
    /\ emitted' = (emitted + 1) % setup.modulus
    /\ after_queue' =
           <<[fn |-> "update", message |-> text, level |-> level, kind |-> kind,
              seq |-> emitted']>> \o after_queue

\* self.gui_callback(text): log_message schedules update() on the main loop
Schedule(text, level, kind) ==
    /\ Len(after_queue) < setup.capacity
    /\ emitted' = (emitted + 1) % setup.modulus
    /\ after_queue' = Append(after_queue,
           [fn |-> "update", message |-> text, level |-> level, kind |-> kind,
            seq |-> emitted'])

\* self.log(message, level)
Emit(message, level, kind) ==
    \E ts \in Timestamps : Schedule(log(ts, message, level), level, kind)

\* a statement that only logs: at line `at`, then on to line `to`
LogStep(at, to, message, level, kind) ==
    /\ w.pc = at
    /\ Emit(message, level, kind)
    /\ w' = [w EXCEPT !.pc = to]
    /\ UNCHANGED <<mainSide, is_running, should_stop, dir_exists, h>>

Url == w.urls[w.index]

\* what the browser layer does in the current attempt, when scripted
Outcome ==
    IF ~setup.script.scripted THEN "any"
    ELSE IF w.attempt <= Len(setup.script.fails[Url])
    THEN setup.script.fails[Url][w.attempt]
    ELSE "ok"

\* the browser layer may answer the call `step` with `answer`: anything when it
\* is not scripted, else the one answer of the script
May(step, answer) ==
    \/ ~setup.script.scripted
    \/ /\ setup.script.scripted
       /\ answer =
            CASE step = "launch" -> IF setup.script.launch THEN "ok" ELSE "error"
              [] step = "goto" -> IF Outcome = "timeout" THEN "timeout" ELSE "ok"
              [] step = "count" -> IF Outcome = "zero" THEN "zero" ELSE "found"
              [] step = "click" -> IF Outcome = "error" THEN "error" ELSE "ok"
              [] step = "save" -> IF Outcome = "notsaved" THEN "absent" ELSE "present"
              [] OTHER -> "ok"

\* the control read when the value is used
Setting_Live(name) == get_settings[name]

\* settings[name], the dictionary start_download passed to the thread
Setting(name) == w.settings[name]

L107 ==
    /\ w.pc = "L107"
    /\ is_running' = TRUE
    /\ w' = [w EXCEPT !.pc = "L108"]
    /\ UNCHANGED <<mainSide, after_queue, emitted, should_stop, dir_exists, h>>

\* run() without the reset of the stop flag
L108_NoReset ==
    /\ w.pc = "L108"
    /\ w' = [w EXCEPT !.pc = "L122"]
    /\ UNCHANGED <<mainSide, after_queue, emitted, is_running, should_stop, dir_exists, h>>

L108 ==
    /\ w.pc = "L108"
    /\ should_stop' = FALSE
    /\ w' = [w EXCEPT !.pc = "L122"]
    /\ UNCHANGED <<mainSide, after_queue, emitted, is_running, dir_exists, h>>

\* run() without the mkdir call
L122_NoMkdir ==
    /\ w.pc = "L122"
    /\ w' = [w EXCEPT !.pc = "L129"]
    /\ UNCHANGED <<mainSide, after_queue, emitted, is_running, should_stop, dir_exists, h>>

\* Path(download_path).mkdir(parents=True, exist_ok=True); an OSError leaves run()
L122 ==
    /\ w.pc = "L122"
    /\ \/ /\ dir_exists' = TRUE
          /\ w' = [w EXCEPT !.pc = "L129"]
          /\ h' = [h EXCEPT !.created = ~dir_exists]
       \/ /\ ~dir_exists
          /\ \E e \in ErrorTexts : w' = [w EXCEPT !.pc = "T605", !.e = e]
          /\ h' = [h EXCEPT !.exc = "mkdir"]
          /\ UNCHANGED dir_exists
    /\ UNCHANGED <<mainSide, after_queue, emitted, is_running, should_stop>>

L129 == LogStep("L129", "L130", Msg_banner, "INFO", "banner")
L130 == LogStep("L130", "L131", Msg_starting, "INFO", "starting")
L131 == LogStep("L131", "L132", Msg_count(Len(w.urls)), "INFO", "count")
L132 == LogStep("L132", "L133", Msg_folder(Setting("download_folder")), "INFO", "folder")
L133 == LogStep("L133", "L134", Msg_selector(Setting("selector")), "INFO", "selector")
L134 ==
    LogStep("L134", "L135",
            Msg_browser(Setting("browser_type"), Setting("custom_browser_path")),
            "INFO", "browser")
L135 == LogStep("L135", "L138", Msg_banner, "INFO", "banner")

\* with sync_playwright() as playwright
L138 ==
    /\ w.pc = "L138"
    /\ \/ /\ w' = [w EXCEPT !.pc = "L139"]
          /\ UNCHANGED h
       \/ /\ May("playwright", "error")
          /\ \E e \in ErrorTexts : w' = [w EXCEPT !.pc = "L206", !.e = e]
          /\ h' = [h EXCEPT !.exc = "playwright"]
    /\ UNCHANGED <<mainSide, after_queue, emitted, is_running, should_stop, dir_exists>>

L139 == LogStep("L139", "L148", Msg_launching, "INFO", "launching")

\* if custom_browser_path and os.path.exists(custom_browser_path): the log call
L148 ==
    /\ w.pc = "L148"
    /\ \E exists \in BOOLEAN :
          IF Setting("custom_browser_path") # <<>> /\ exists
          THEN Emit(Msg_custom(Setting("custom_browser_path")), "INFO", "custom")
          ELSE UNCHANGED <<after_queue, emitted>>
    /\ w' = [w EXCEPT !.pc = "L154"]
    /\ UNCHANGED <<mainSide, is_running, should_stop, dir_exists, h>>

\* the engine that lines 153-158 launch
LaunchEngine(browser_type, custom_browser_path) ==
    IF browser_type = <<"F", "i", "r", "e", "f", "o", "x">>
       \/ (custom_browser_path # <<>>
           /\ Contains(Lower(custom_browser_path), <<"z", "e", "n">>))
    THEN "firefox"
    ELSE IF browser_type = <<"W", "e", "b", "K", "i", "t">> THEN "webkit"
    ELSE "chromium"

\* the launch outside the try block of run(): its exception leaves run()
L154_Escapes ==
    /\ w.pc = "L154"
    /\ \/ /\ May("launch", "ok")
          /\ w' = [w EXCEPT !.pc = "L163"]
          /\ h' = [h EXCEPT !.browser =
                       LaunchEngine(Setting("browser_type"),
                                    Setting("custom_browser_path"))]
       \/ /\ May("launch", "error")
          /\ \E e \in ErrorTexts : w' = [w EXCEPT !.pc = "T605", !.e = e]
          /\ h' = [h EXCEPT !.exc = "launch"]
    /\ UNCHANGED <<mainSide, after_queue, emitted, is_running, should_stop, dir_exists>>

\* browser launch, browser.new_context, context.new_page
L154 ==
    /\ w.pc = "L154"
    /\ \/ /\ May("launch", "ok")
          /\ w' = [w EXCEPT !.pc = "L163"]
          /\ h' = [h EXCEPT !.browser =
                       LaunchEngine(Setting("browser_type"),
                                    Setting("custom_browser_path"))]
       \/ /\ May("launch", "error")
          /\ \E e \in ErrorTexts : w' = [w EXCEPT !.pc = "L206", !.e = e]
          /\ h' = [h EXCEPT !.exc = "launch"]
    /\ UNCHANGED <<mainSide, after_queue, emitted, is_running, should_stop, dir_exists>>

\* for index, url in enumerate(urls, start=1)
L163 ==
    /\ w.pc = "L163"
    /\ IF w.index < Len(w.urls)
       THEN /\ w' = [w EXCEPT !.pc = "L165", !.index = @ + 1, !.attempt = 0,
                              !.success = FALSE]
            /\ h' = [h EXCEPT !.item = NoItem]
       ELSE /\ w' = [w EXCEPT !.pc = "L201"]
            /\ UNCHANGED h
    /\ UNCHANGED <<mainSide, after_queue, emitted, is_running, should_stop, dir_exists>>

\* if self.should_stop
L165 ==
    /\ w.pc = "L165"
    /\ w' = [w EXCEPT !.pc = IF should_stop THEN "L166" ELSE "L169"]
    /\ UNCHANGED <<mainSide, after_queue, emitted, is_running, should_stop, dir_exists, h>>

\* ... log, then break
L166 == LogStep("L166", "L201", Msg_stopped, "WARNING", "stopped")
L169 == LogStep("L169", "L170", Msg_rule, "INFO", "rule")
\* the log call, then success = False
L170 ==
    LogStep("L170", "L174", Msg_processing(w.index, Len(w.urls)), "INFO", "processing")

\* the range with its stop one too far
AttemptRange_OneMore(max_retries) == 1..(max_retries + 2)

\* range(1, max_retries + 2)
AttemptRange(max_retries) == 1..(max_retries + 1)

\* for attempt in range(1, max_retries + 2)
L174 ==
    /\ w.pc = "L174"
    /\ w' = IF w.attempt + 1 \in AttemptRange(Setting("max_retries"))
            THEN [w EXCEPT !.pc = "L175", !.attempt = @ + 1]
            ELSE [w EXCEPT !.pc = "L190"]
    /\ UNCHANGED <<mainSide, after_queue, emitted, is_running, should_stop, dir_exists, h>>

\* the retry loop without its test of the stop flag
L175_NoCheck ==
    /\ w.pc = "L175"
    /\ w' = [w EXCEPT !.pc = "D52"]
    /\ h' = [h EXCEPT !.item.attempts = @ + 1, !.total = @ + 1,
                      !.attempted = IF h.item.attempts = 0 THEN @ + 1 ELSE @]
    /\ UNCHANGED <<mainSide, after_queue, emitted, is_running, should_stop, dir_exists>>

\* if self.should_stop: break; else the call of download_file
L175 ==
    /\ w.pc = "L175"
    /\ IF should_stop
       THEN /\ w' = [w EXCEPT !.pc = "L190"]
            /\ UNCHANGED h
       ELSE /\ w' = [w EXCEPT !.pc = "D52"]
            /\ h' = [h EXCEPT !.item.attempts = @ + 1, !.total = @ + 1,
                              !.attempted = IF h.item.attempts = 0 THEN @ + 1 ELSE @]
    /\ UNCHANGED <<mainSide, after_queue, emitted, is_running, should_stop, dir_exists>>

\* --------------------------------------------------------- download_file
\* download_file without its "except Exception" clause: the exception reaches
\* the handler of run()
Handler_TimeoutOnly(exception) == IF exception = "timeout" THEN "D91" ELSE "L206"

\* the except clause that catches an exception of kind "timeout"
\* (PlaywrightTimeoutError) or "error" (any other Exception)
Handler(exception) == IF exception = "timeout" THEN "D91" ELSE "D94"

\* an exception raised by the browser layer inside the try block
Raise(exception, item) ==
    /\ \E e \in ErrorTexts : w' = [w EXCEPT !.pc = Handler(exception), !.e = e]
    /\ h' = [h EXCEPT !.item = item, !.created = FALSE,
                      !.exc = IF Handler(exception) = "L206" THEN "download_file" ELSE @]

\* return from download_file to line 183 of run()
Return(value) == [w EXCEPT !.pc = "L183", !.success = value, !.filename = <<>>, !.e = <<>>]

D52 ==
    LogStep("D52", "D55", Msg_opening(w.attempt, Setting("max_retries"), Url),
            "INFO", "opening")

\* page.goto(url, wait_until="networkidle", timeout=page_timeout)
D55 ==
    /\ w.pc = "D55"
    /\ \/ /\ May("goto", "ok")
          /\ w' = [w EXCEPT !.pc = "D56"]
          /\ h' = [h EXCEPT !.created = FALSE]
       \/ \E x \in {"timeout", "error"} : May("goto", x) /\ Raise(x, Matched(h.item))
    /\ UNCHANGED <<mainSide, after_queue, emitted, is_running, should_stop, dir_exists>>

D56 == LogStep("D56", "D59", Msg_loaded, "INFO", "loaded")

\* page.wait_for_timeout(1000); page.locator(selector); download_button.count() == 0
D59 ==
    /\ w.pc = "D59"
    /\ \/ /\ May("count", "zero")
          /\ w' = [w EXCEPT !.pc = "D65"]
          /\ UNCHANGED h
       \/ /\ May("count", "found")
          /\ w' = [w EXCEPT !.pc = "D68"]
          /\ h' = [h EXCEPT !.item = Matched(@)]
       \/ \E x \in {"timeout", "error"} : May("count", x) /\ Raise(x, Matched(h.item))
    /\ UNCHANGED <<mainSide, after_queue, emitted, is_running, should_stop, dir_exists>>

\* the WARNING log call, then return False
D65 ==
    /\ w.pc = "D65"
    /\ Emit(Msg_notfound(Setting("selector")), "WARNING", "notfound")
    /\ w' = Return(FALSE)
    /\ h' = [h EXCEPT !.item.notFound = IF h.item.onlyZero THEN @ + 1 ELSE @]
    /\ UNCHANGED <<mainSide, is_running, should_stop, dir_exists>>

D68 == LogStep("D68", "D71", Msg_found, "INFO", "found")

\* with page.expect_download(...): download_button.first.click(); download_info.value
D71 ==
    /\ w.pc = "D71"
    /\ \/ /\ May("click", "ok")
          /\ \E f \in Filenames : w' = [w EXCEPT !.pc = "D76", !.filename = f]
          /\ UNCHANGED h
       \/ \E x \in {"timeout", "error"} : May("click", x) /\ Raise(x, h.item)
    /\ UNCHANGED <<mainSide, after_queue, emitted, is_running, should_stop, dir_exists>>

D76 == LogStep("D76", "D80", Msg_downloading(w.filename), "INFO", "downloading")

\* download.save_as(save_path); if os.path.exists(save_path)
D80 ==
    /\ w.pc = "D80"
    /\ \/ /\ \E present \in BOOLEAN :
                /\ May("save", IF present THEN "present" ELSE "absent")
                /\ w' = [w EXCEPT !.pc = IF present THEN "D84" ELSE "D87"]
          /\ UNCHANGED h
       \/ \E x \in {"timeout", "error"} : May("save", x) /\ Raise(x, h.item)
    /\ UNCHANGED <<mainSide, after_queue, emitted, is_running, should_stop, dir_exists>>

\* the SUCCESS log call, then return True
D84 ==
    /\ w.pc = "D84"
    /\ \E size \in FileSizes : Emit(Msg_complete(w.filename, size), "SUCCESS", "complete")
    /\ w' = Return(TRUE)
    /\ UNCHANGED <<mainSide, is_running, should_stop, dir_exists, h>>

\* an ERROR log call, then return False
Fail(at, message, kind) ==
    /\ w.pc = at
    /\ Emit(message, "ERROR", kind)
    /\ w' = Return(FALSE)
    /\ UNCHANGED <<mainSide, is_running, should_stop, dir_exists, h>>

D87 == Fail("D87", Msg_notsaved(w.filename), "notsaved")
D91 == Fail("D91", Msg_timeout(w.e), "timeout")
D94 == Fail("D94", Msg_error(w.e), "error")

\* ------------------------------------------------- run(), after an attempt
\* the comparison made strict
RetryAfter_Strict(attempt, max_retries) == attempt < max_retries

\* if attempt <= max_retries
RetryAfter(attempt, max_retries) == attempt <= max_retries

\* if success: break / if attempt <= max_retries: ... / next iteration
L183 ==
    /\ w.pc = "L183"
    /\ w' = [w EXCEPT !.pc = IF w.success THEN "L190"
                             ELSE IF RetryAfter(w.attempt, Setting("max_retries"))
                             THEN "L187" ELSE "L174"]
    /\ UNCHANGED <<mainSide, after_queue, emitted, is_running, should_stop, dir_exists, h>>

L187 ==
    /\ w.pc = "L187"
    /\ Emit(Msg_retrying(Setting("delay")), "INFO", "retrying")
    /\ w' = [w EXCEPT !.pc = "L188"]
    /\ h' = [h EXCEPT !.item.retryWaits = @ + 1]
    /\ UNCHANGED <<mainSide, is_running, should_stop, dir_exists>>

\* time.sleep(delay)
L188 ==
    /\ w.pc = "L188"
    /\ w' = [w EXCEPT !.pc = "L174"]
    /\ UNCHANGED <<mainSide, after_queue, emitted, is_running, should_stop, dir_exists, h>>

\* the failed address put at the front of the list
Tally_Prepend(t, url) ==
    IF t.success
    THEN [t EXCEPT !.successful = @ + 1]
    ELSE [t EXCEPT !.failed = @ + 1, !.failed_urls = <<url>> \o @]

\* if success: successful += 1 / else: failed += 1; failed_urls.append(url)
Tally(t, url) ==
    IF t.success
    THEN [t EXCEPT !.successful = @ + 1]
    ELSE [t EXCEPT !.failed = @ + 1, !.failed_urls = Append(@, url)]

L190 ==
    /\ w.pc = "L190"
    /\ w' = [Tally(w, Url) EXCEPT !.pc = "L197"]
    /\ h' = [h EXCEPT !.paced = 0]
    /\ UNCHANGED <<mainSide, after_queue, emitted, is_running, should_stop, dir_exists>>

\* the wait made after the last address too
PaceAfter_EveryItem(index, n, stopping) == index <= n /\ ~stopping

\* if index < len(urls) and not self.should_stop
PaceAfter(index, n, stopping) == index < n /\ ~stopping

L197 ==
    /\ w.pc = "L197"
    /\ w' = [w EXCEPT !.pc = IF PaceAfter(w.index, Len(w.urls), should_stop)
                             THEN "L198" ELSE "L163"]
    /\ UNCHANGED <<mainSide, after_queue, emitted, is_running, should_stop, dir_exists, h>>

L198 == LogStep("L198", "L199", Msg_waiting(Setting("delay")), "INFO", "waiting")

\* time.sleep(delay)
L199 ==
    /\ w.pc = "L199"
    /\ w' = [w EXCEPT !.pc = "L163"]
    /\ h' = [h EXCEPT !.paced = @ + 1]
    /\ UNCHANGED <<mainSide, after_queue, emitted, is_running, should_stop, dir_exists>>

L201 == LogStep("L201", "L202", Msg_closing, "INFO", "closing")

\* context.close(); browser.close(); leaving the with block
L202 ==
    /\ w.pc = "L202"
    /\ \/ /\ w' = [w EXCEPT !.pc = "L209"]
          /\ UNCHANGED h
       \/ /\ May("close", "error")
          /\ \E e \in ErrorTexts : w' = [w EXCEPT !.pc = "L206", !.e = e]
          /\ h' = [h EXCEPT !.exc = "close"]
    /\ UNCHANGED <<mainSide, after_queue, emitted, is_running, should_stop, dir_exists>>

\* except Exception as e: the ERROR log call
L206 ==
    /\ w.pc = "L206"
    /\ Emit(Msg_browsererr(w.e), "ERROR", "browsererr")
    /\ w' = [w EXCEPT !.pc = "L209", !.e = <<>>]
    /\ h' = [h EXCEPT !.fatal = TRUE]
    /\ UNCHANGED <<mainSide, is_running, should_stop, dir_exists>>

L209 == LogStep("L209", "L210", Msg_banner, "INFO", "banner")
L210 == LogStep("L210", "L211", Msg_summary, "INFO", "summary")
L211 == LogStep("L211", "L212", Msg_banner, "INFO", "banner")
L212 ==
    LogStep("L212", "L214", Msg_total(Len(w.urls), w.successful, w.failed), "INFO", "total")

\* if failed_urls
L214 ==
    /\ w.pc = "L214"
    /\ w' = [w EXCEPT !.pc = IF w.failed_urls # <<>> THEN "L215" ELSE "L219"]
    /\ UNCHANGED <<mainSide, after_queue, emitted, is_running, should_stop, dir_exists, h>>

L215 == LogStep("L215", "L216", Msg_failedhdr, "INFO", "failedhdr")

\* for url in failed_urls
L216 ==
    /\ w.pc = "L216"
    /\ w' = IF w.k < Len(w.failed_urls)
            THEN [w EXCEPT !.pc = "L217", !.k = @ + 1]
            ELSE [w EXCEPT !.pc = "L219", !.k = 0]
    /\ UNCHANGED <<mainSide, after_queue, emitted, is_running, should_stop, dir_exists, h>>

L217 == LogStep("L217", "L216", Msg_failedurl(w.failed_urls[w.k]), "INFO", "failedurl")
L219 == LogStep("L219", "L220", Msg_banner, "INFO", "banner")
L220 == LogStep("L220", "L222", Msg_done, "INFO", "done")

\* self.is_running = False; return successful, failed
L222 ==
    /\ w.pc = "L222"
    /\ is_running' = FALSE
    /\ w' = [w EXCEPT !.pc = "T608"]
    /\ UNCHANGED <<mainSide, after_queue, emitted, should_stop, dir_exists, h>>

\* ---------------------------------------------------- run_download_thread
\* the except clause without the finally clause after it
T605_NoFinally ==
    /\ w.pc = "T605"
    /\ Schedule(Msg_threaderr(w.e), "none", "threaderr")
    /\ w' = NoThread
    /\ UNCHANGED <<mainSide, is_running, should_stop, dir_exists, h>>

\* except Exception as e: self.log_message(f"Error: {str(e)}")
T605 ==
    /\ w.pc = "T605"
    /\ Schedule(Msg_threaderr(w.e), "none", "threaderr")
    /\ w' = [w EXCEPT !.pc = "T608", !.e = <<>>]
    /\ UNCHANGED <<mainSide, is_running, should_stop, dir_exists, h>>

\* finally: self.root.after(0, self.download_complete); the thread ends
T608 ==
    /\ w.pc = "T608"
    /\ Len(after_queue) < setup.capacity
    /\ after_queue' = Append(after_queue,
           [fn |-> "download_complete", message |-> <<>>, level |-> "none",
            kind |-> "none", seq |-> 0])
    /\ w' = NoThread
    /\ UNCHANGED <<emitted, mainSide, is_running, should_stop, dir_exists, h>>

\* ------------------------------------------------------------ the program
MainThread ==
    start_download \/ stop_download \/ update \/ download_complete \/ on_closing

Engine ==
    \/ L107 \/ L108 \/ L122 \/ L129 \/ L130 \/ L131 \/ L132 \/ L133 \/ L134
    \/ L135 \/ L138 \/ L139 \/ L148 \/ L154 \/ L163 \/ L165 \/ L166
    \/ L169 \/ L170 \/ L174 \/ L175 \/ L183 \/ L187 \/ L188 \/ L190 \/ L197
    \/ L198 \/ L199 \/ L201 \/ L202 \/ L206 \/ L209 \/ L210 \/ L211 \/ L212
    \/ L214 \/ L215 \/ L216 \/ L217 \/ L219 \/ L220 \/ L222

Attempt ==
    \/ D52 \/ D55 \/ D56 \/ D59 \/ D65 \/ D68 \/ D71 \/ D76 \/ D80 \/ D84
    \/ D87 \/ D91 \/ D94

WorkerThread == T605 \/ T608

Next == MainThread \/ Engine \/ Attempt \/ WorkerThread

Spec == Init /\ [][Next]_vars

SpecMarked == InitMarked /\ [][Next]_vars

SpecOrder == InitOrder /\ [][Next]_vars

SpecScript == InitScript /\ [][Next]_vars

\* the text area alone: the two handlers that parse it
NextText == start_download \/ update_url_count

SpecText == InitText /\ [][NextText]_vars

\* the program with a user who edits the controls at any time
NextEdit == Next \/ edit

SpecEdit == InitEdit /\ [][NextEdit]_vars

\* The scheduling the lifecycle relies on: the worker thread goes on to its next
\* statement (each browser call and each sleep returns), and the main loop runs
\* the callbacks that root.after queued.
Fairness ==
    /\ WF_vars(Engine \/ Attempt \/ WorkerThread)
    /\ WF_vars(update \/ download_complete)

SpecLive == InitLive /\ [][Next]_vars /\ Fairness

\* ------------------------------------------------------------- properties
N == Len(w.urls)
R == w.settings.max_retries

\* run() has logged its summary: the counts and the failed list are final
Summarised == w.pc = "L222"
\* the statement after the retry loop has just counted the current address
Tallied == w.pc = "L197"
Launched == h.browser # "none"

\* the single worker record is enough: no start while a worker exists
OneWorker == start_btn = "normal" => w.pc = "none"

\* C1: in a run whose browser session launched, successful + failed equals N
\* minus the addresses on which no attempt was made because a stop request was
\* observed; with no stop request successful + failed equals N.
C1_TallyCountsAttempted ==
    (Summarised /\ Launched) =>
        /\ w.successful + w.failed = N - (N - h.attempted)
        /\ (~h.stopReq => w.successful + w.failed = N)

\* C2: once stop() was called after the worker thread was launched, no step
\* takes should_stop back to false while that worker exists.
C2_StopFlagMonotonic ==
    [][(w.pc # "none" /\ h.stopReq /\ should_stop) => should_stop']_vars

\* C3: a stop() made after the worker was launched and before the first attempt
\* on the first address leaves the run with zero attempts and an empty result.
C3_EarlyStopEmptyResult ==
    h.earlyStop =>
        /\ h.total = 0
        /\ (Summarised => w.successful = 0 /\ w.failed = 0 /\ w.failed_urls = <<>>)

\* C4: an address is counted as failed only after all max_retries + 1 attempts
\* on it were made and failed, under every interleaving of stop requests.
C4_FailedOnlyWhenExhausted ==
    (Tallied /\ ~w.success) => h.item.attempts = R + 1

\* C5: for max_retries = r >= 0, under any outcomes and stop requests, run()
\* calls download_file at most r + 1 times for an address and at most
\* N * (r + 1) times in all.
C5_AttemptsBounded ==
    w.pc # "none" => h.item.attempts <= R + 1 /\ h.total <= N * (R + 1)

\* both bounds are met: two addresses, every attempt on them made
C5_Witness ==
    Summarised /\ N >= 2 /\ R >= 1 /\ h.item.attempts = R + 1 /\ h.total = N * (R + 1)

\* C6: with no stop request, an address whose attempt k + 1 is the first to
\* succeed gets exactly k + 1 attempts and k retry notices and is counted as a
\* success and not as a failure; no attempt follows a successful one.
C6_SuccessEndsRetries ==
    [][/\ (h'.item.attempts > h.item.attempts => ~w.success)
       /\ (w.pc = "L190" /\ w'.pc = "L197" /\ w.success /\ ~h.stopReq =>
               /\ h.item.attempts = w.attempt
               /\ h.item.retryWaits = w.attempt - 1
               /\ w'.successful = w.successful + 1
               /\ w'.failed = w.failed
               /\ w'.failed_urls = w.failed_urls)]_vars

\* one address, max_retries = 2, attempts 1 and 2 fail and attempt 3 succeeds:
\* success 1, failed 0, two retry notices
C6_Witness ==
    /\ Summarised /\ ~h.stopReq /\ N = 1 /\ R = 2
    /\ h.item.attempts = 3 /\ h.item.retryWaits = 2
    /\ w.successful = 1 /\ w.failed = 0

RECURSIVE IsSubsequence(_, _)
IsSubsequence(a, b) ==
    IF a = <<>> THEN TRUE
    ELSE IF b = <<>> THEN FALSE
    ELSE IF Head(a) = Head(b) THEN IsSubsequence(Tail(a), Tail(b))
    ELSE IsSubsequence(a, Tail(b))

\* C7: the failed list is always a subsequence of the input list in input order,
\* and when no stop is requested and every attempt on every address fails it
\* equals the input list, duplicates included.  "Every attempt on every address
\* fails" is read as: each address was attempted and none succeeded.
C7_FailedListInInputOrder ==
    /\ IsSubsequence(w.failed_urls, w.urls)
    /\ (Summarised /\ ~h.stopReq /\ h.attempted = N /\ w.successful = 0 =>
            w.failed_urls = w.urls)

\* two different addresses, both failed on every attempt
C7_Witness ==
    /\ Summarised /\ ~h.stopReq /\ h.attempted = N /\ w.successful = 0
    /\ N = 2 /\ w.urls[1] # w.urls[2] /\ w.failed_urls = w.urls /\ R >= 1

\* positions of download_file from the click to the end of the save
ClickOrSave == {"D71", "D76", "D80", "D84", "D87"}

\* C8: with no stop request, an address whose every attempt finds no element
\* ends as a failure after exactly max_retries + 1 "not found" events and no
\* click or save, and the presentation layer tags each of those events WARNING,
\* whatever the selector.
C8_NotFoundEndsAsWarnedFailure ==
    /\ (Tallied /\ h.item.onlyZero /\ ~h.stopReq =>
            /\ ~w.success
            /\ w.failed_urls # <<>> /\ w.failed_urls[Len(w.failed_urls)] = Url
            /\ h.item.notFound = R + 1)
    /\ (w.pc \in ClickOrSave => ~h.item.onlyZero)
    /\ (log_text.kind = "notfound" => log_text.tag = "WARNING")

\* C9: when the browser session cannot be started the run makes no attempt,
\* logs an entry at level ERROR and ends with an empty result, and the
\* exception does not leave run().
C9_LaunchFailureAborts ==
    h.exc \in {"playwright", "launch"} =>
        /\ h.total = 0
        /\ w.successful = 0 /\ w.failed = 0 /\ w.failed_urls = <<>>
        /\ w.pc # "T605"
        /\ (w.pc = "L206" \/ h.fatal)

\* the launch failed for a job of two addresses and the summary is out
C9_Witness ==
    Summarised /\ h.exc = "launch" /\ h.fatal /\ N = 2 /\ h.total = 0 /\ w.failed = 0

\* C10: when the session launched and no stop is requested every address gets
\* at least one attempt, whatever happened to the addresses before it, and no
\* exception raised inside an attempt leaves download_file.
C10_FailingItemNeverStopsRun ==
    /\ h.exc # "download_file"
    /\ (Summarised /\ Launched /\ ~h.stopReq => h.attempted = N)

\* the first address failed on every attempt and the second was still tried
C10_Witness ==
    /\ Summarised /\ Launched /\ ~h.stopReq /\ N = 2 /\ h.attempted = 2
    /\ w.failed_urls = <<w.urls[1]>> /\ w.successful = 1

\* positions of the worker inside DownloaderEngine.run
InRun(pc) == pc \notin {"none", "T605", "T608"}

\* C11: from the launch of the worker thread until that worker leaves run(),
\* on_closing destroys the window only after asking for confirmation.
C11_ClosePromptsDuringRun ==
    (root.state = "destroyed" /\ InRun(root.worker)) => root.asked

\* the job or a required setting is missing
InvalidInput ==
    \/ get_urls(url_text) = <<>>
    \/ Strip(selector_var) = <<>>
    \/ Strip(folder_var) = <<>>

\* C12: with an empty parsed job list, a blank selector or a blank destination,
\* start_download only shows a warning: no worker thread is created, the engine
\* is not touched and the lifecycle stays Idle (start enabled, stop disabled,
\* status "Ready").
C12_InvalidStartOnlyWarns ==
    [][(start_btn = "normal" /\ InvalidInput /\ root'.state = "open") =>
          /\ dialog' \in {"Please add at least one URL.",
                          "Please enter a button selector.",
                          "Please select a download folder."}
          /\ w' = w /\ w.pc = "none"
          /\ is_running' = is_running /\ should_stop' = should_stop
          /\ after_queue' = after_queue
          /\ start_btn' = "normal" /\ stop_btn' = "disabled"
          /\ progress_var' = "Ready"]_vars

\* a job and a destination are given, the selector is blank, the start button
\* was pressed
C12_Witness ==
    /\ get_urls(url_text) # <<>> /\ Strip(selector_var) = <<>>
    /\ selector_var # <<>> /\ Strip(folder_var) # <<>>
    /\ dialog = "Please enter a button selector."
    /\ w.pc = "none" /\ start_btn = "normal" /\ progress_var = "Ready"

\* C13: the first attempt on every address but the first is preceded by exactly
\* one pacing wait, made after the address before it was counted, whether that
\* one succeeded or failed; the check of line 197 starts the wait when the
\* address is not the last and no stop request is pending, and starts none
\* after the last address or when it sees the stop request.
C13_OnePacingWaitBetweenItems ==
    /\ [](w.pc = "D52" /\ w.attempt = 1 => h.paced = IF w.index > 1 THEN 1 ELSE 0)
    /\ [][/\ (w.pc = "L197" /\ w'.pc \notin {"L197", "none"} =>
                IF w.index < N /\ ~should_stop
                THEN w'.pc = "L198" /\ w'.settings.delay = w.settings.delay
                ELSE w'.pc = "L163" /\ h'.paced = 0)
          /\ (w'.pc = "L198" /\ w.pc # "L198" => w.pc = "L197")
          /\ (h'.paced > h.paced => w.pc = "L199")]_vars

\* the first address succeeded at its first attempt, and the first attempt on
\* the second one starts after one pacing wait
C13_Witness ==
    /\ w.pc = "D52" /\ w.index = 2 /\ w.attempt = 1 /\ h.paced = 1
    /\ w.successful = 1 /\ h.total = 2 /\ ~h.stopReq

IsLogLine(entry) == entry.fn = "update"

\* C14: the lines the worker hands over are inserted into the log view in the
\* order of their emission, none lost and none twice, under every interleaving
\* of the worker and the main loop: the pending lines carry the numbers that
\* follow the number of the line inserted last, up to the number emitted last.
C14_LogOrderKept ==
    LET pending == SelectSeq(after_queue, IsLogLine) IN
        /\ \A i \in 1..Len(pending) :
               pending[i].seq = (log_text.seq + i) % setup.modulus
        /\ emitted = (log_text.seq + Len(pending)) % setup.modulus

\* two lines wait behind one already shown while the worker is in an attempt
C14_Witness ==
    /\ setup.modulus > setup.capacity + 1
    /\ Len(SelectSeq(after_queue, IsLogLine)) >= 2
    /\ log_text.kind = "processing" /\ w.pc = "D59"
    /\ after_queue[1].kind = "opening" /\ after_queue[2].kind = "loaded"

\* C15: the job and the settings of a run are those start_download read when
\* it created the thread: whatever is typed into the address buffer or changed
\* in a settings control while the worker exists, the addresses it processes
\* and every setting it uses stay as captured.
C15_JobAndConfigCaptured ==
    w.pc # "none" =>
        /\ w.urls = h.job.urls
        /\ \A name \in DOMAIN NoSettings : Setting(name) = h.job.settings[name]

\* in the retry decision of a run whose address buffer and retry count were
\* both changed after the start
C15_Witness ==
    /\ w.pc = "L183" /\ h.total >= 1
    /\ get_urls(url_text) # w.urls /\ retries_var # Setting("max_retries")
    /\ N = 1 /\ Setting("max_retries") = 0

\* what a run of the job on the scripted browser layer yields when nothing
\* stops it: an address succeeds when its script fails at most max_retries times
Expected(urls, max_retries, script) ==
    LET Lost(url) == Len(script.fails[url]) > max_retries
        Won(url) == ~Lost(url)
    IN  IF script.launch
        THEN [successful |-> Len(SelectSeq(urls, Won)),
              failed |-> Len(SelectSeq(urls, Lost)),
              failed_urls |-> SelectSeq(urls, Lost)]
        ELSE [successful |-> 0, failed |-> 0, failed_urls |-> <<>>]

\* C16: against a scripted browser layer, every run of the same job and
\* settings that no stop request ends has the same result, the one the job and
\* the script determine, whether it is the first run or follows a run that was
\* ended by a stop request: nothing of a run is carried into the next.
C16_RunsRepeat ==
    (setup.script.scripted /\ Summarised /\ ~h.stopReq) =>
        [successful |-> w.successful, failed |-> w.failed,
         failed_urls |-> w.failed_urls] = Expected(w.urls, R, setup.script)

\* the run before was stopped, and this one ran to its summary with one
\* address downloaded at the last attempt and one lost
C16_Witness ==
    /\ setup.script.scripted /\ Summarised /\ ~h.stopReq /\ h.before = "stopped"
    /\ w.successful = 1 /\ w.failed_urls = <<w.urls[2]>> /\ h.total = 2 * (R + 1)

\* positions of run() and download_file after the mkdir call of line 122
AfterMkdir(pc) == InRun(pc) /\ pc \notin {"L107", "L108", "L122"}

\* C17: the destination directory exists from line 122 on, so before the
\* browser is launched and before the first navigation, also when line 122 had
\* to create it and whatever the launch and the downloads do later.
C17_DirectoryBeforeBrowser ==
    /\ (AfterMkdir(w.pc) => dir_exists)
    /\ (h.created => dir_exists)

\* the directory was missing, the run created it, the browser is launched and
\* the first navigation is about to start
C17_Witness ==
    /\ h.created /\ dir_exists /\ w.pc = "D55" /\ Launched
    /\ w.index = 1 /\ w.attempt = 1

\* The addresses of a buffer, from its characters: the lines that hold a
\* character other than white space, the first such character not being "#",
\* each cut from its first to its last such character.
Addresses_Of(content) ==
    LET Ink(line) == {i \in 1..Len(line) : line[i] \notin Whitespace}
        First(line) == CHOOSE i \in Ink(line) : \A j \in Ink(line) : i <= j
        Last(line) == CHOOSE i \in Ink(line) : \A j \in Ink(line) : i >= j
        IsAddress(line) == Ink(line) # {} /\ line[First(line)] # "#"
        Trimmed(line) == SubSeq(line, First(line), Last(line))
    IN  Map(SelectSeq(Split(content, "\n"), IsAddress), Trimmed)

\* C18: for every buffer get_urls returns the lines that are neither blank nor
\* comments (first character after the leading blanks is "#"), trimmed, in
\* their order and with repetitions, and update_url_count shows the length of
\* that list; start_download starts on that list, or warns when it is empty.
C18_AddressesParsed ==
    /\ [](get_urls(url_text) = Addresses_Of(url_text))
    /\ [](w.pc # "none" => w.urls = Addresses_Of(url_text))
    /\ [](dialog = "Please add at least one URL." => Addresses_Of(url_text) = <<>>)
    /\ [][url_count_var' # url_count_var =>
             url_count_var' = CountLabel(Len(Addresses_Of(url_text')))]_vars

\* a comment, a blank line and the same address twice: the thread got the two
\* addresses and the label shows 2
C18_Witness ==
    /\ url_text = JoinLines(<<<<" ", "#", "a">>, <<"b">>, <<"\t">>, <<"b">>>>)
    /\ w.urls = <<<<"b">>, <<"b">>>> /\ w.pc = "L107"
    /\ url_count_var = CountLabel(2)

\* C19: while the stop flag is set the worker begins no attempt, on the current
\* address or a later one; an attempt begun before the flag was set runs on.
C19_NoAttemptBeginsWhileStopping ==
    [][should_stop =>
          /\ ~(h'.total > h.total)
          /\ (w'.pc = "D52" => w.pc = "D52")]_vars

\* stop was pressed during the first attempt, that attempt failed with retries
\* and a second address left, and the run ended without another attempt
C19_Witness ==
    /\ Summarised /\ Launched /\ h.stopReq /\ ~h.earlyStop /\ should_stop
    /\ N = 2 /\ R >= 1 /\ h.total = 1 /\ w.successful = 0

\* C20: when the stop flag is set at the moment an attempt returns failure with
\* attempts left, the worker goes on without the "Retrying in ..." notice and
\* without the retry delay.
C20_NoRetryWaitWhileStopping ==
    [][(w.pc = "L183" /\ should_stop /\ ~w.success /\ w.attempt <= R) =>
          w'.pc \notin {"L187", "L188"}]_vars

\* the three states of the interface
Idle == start_btn = "normal" /\ stop_btn = "disabled" /\ progress_var = "Ready"
Running == start_btn = "disabled" /\ progress_var = "Downloading..."
Stopping == start_btn = "disabled" /\ stop_btn = "disabled" /\ progress_var = "Stopping..."

\* C21: while the window is open the interface is Idle, Running or Stopping and
\* moves only Idle -> Running -> (Stopping) -> Idle, Stopping being entered only
\* from Running; and every launched run is followed by Idle, when the worker
\* keeps going and the main loop keeps running its callbacks (the loop ends
\* when the window is destroyed).
C21_LifecycleReturnsToIdle ==
    /\ [](root.state = "open" => Idle \/ Running \/ Stopping)
    /\ [][root'.state = "open" =>
            /\ (Idle /\ ~Idle' => Running' /\ w'.pc = "L107")
            /\ (Running /\ ~Running' => Stopping' \/ Idle')
            /\ (Stopping /\ ~Stopping' => Idle')
            /\ (Stopping' /\ ~Stopping => Running)]_vars
    /\ (Running \/ Stopping) ~> (Idle \/ root.state = "destroyed")

\* the interface is Idle again after a run that an exception left at line 122
C21_Witness ==
    /\ Idle /\ w.pc = "none" /\ after_queue = <<>> /\ h.job.urls # <<>>
    /\ h.exc = "mkdir"

\* C22: whenever no worker thread exists, because none was started or because
\* the last one has finished by a return or by an exception, is_running is
\* false, so on_closing in Idle destroys the window without asking.
C22_NotRunningOnceWorkerFinished ==
    w.pc = "none" => ~is_running

\* C23: a worker thread is launched only when none exists: whenever the start
\* button can be pressed no worker is alive, a pending download_complete is the
\* last callback of a thread that has ended, and the step that launches a
\* thread starts from a state without one.
C23_AtMostOneWorker ==
    /\ []OneWorker
    /\ [](\A i \in 1..Len(after_queue) :
            after_queue[i].fn = "download_complete" =>
                w.pc = "none" /\ i = Len(after_queue))
    /\ [][(w'.pc = "L107" /\ w.pc # "L107") => w.pc = "none"]_vars

\* a second worker under way after a first one that was stopped and has ended:
\* the stop flag of the first run is still set and no stop was asked of this one
C23_Witness ==
    /\ w.pc = "L108" /\ is_running /\ should_stop /\ ~h.stopReq
    /\ start_btn = "disabled" /\ after_queue = <<>>

\* C24: the line update() inserted last carries the tag of the level it was
\* emitted with through log(message, level), whatever text it holds.
C24_TagIsEmittedLevel ==
    log_text.level \in {"INFO", "SUCCESS", "WARNING", "ERROR"} =>
        log_text.tag = log_text.level

====
